---- MODULE Spec2Model ----
(***************************************************************************)
(* Model of server.js: the POST /api/process-commit handler, the           *)
(* processAndCommit pipeline it awaits, and the external services the      *)
(* pipeline calls (hosting commits read, contents read, contents write     *)
(* with its hash-token check, generative model).  Several requests run     *)
(* concurrently; each action is the part of one request that runs between  *)
(* two awaits.                                                             *)
(***************************************************************************)
EXTENDS Integers, Sequences, FiniteSets, TLC

(* ---------------------------- bounds ---------------------------------- *)

\* number of concurrent POST /api/process-commit requests
NumReqs == 2
\* longest commit list the hosting API returns for the look-back window
MaxCommits == 2

Reqs == 1..NumReqs

(* ------------------------- JavaScript values -------------------------- *)

Undefined == "undefined"

\* a value read out of PROJECT_REPO_MAP: a number, undefined, or a function
\* inherited from Object.prototype
JsNumber(n) == [type |-> "number", n |-> n]
JsUndefined == [type |-> "undefined", n |-> 0]
JsFunction == [type |-> "function", n |-> 0]

\* JavaScript truthiness of such a value (the test !projectId)
Truthy(v) == \/ v.type = "function"
             \/ v.type = "number" /\ v.n # 0

(* --------------------------- configuration ---------------------------- *)

PROJECT_REPO_MAP ==
    ( "MouazMidani/testRepo" :> 3 ) @@
    ( "MouazMidani/React_Practice_TrendingMovies" :> 5 ) @@
    ( "MouazMidani/React_Practice_Storify" :> 6 ) @@
    ( "MouazMidani/React_Practice_Foodies" :> 7 )

\* property names every object literal inherits from Object.prototype
ObjectPrototypeKeys == {"constructor", "toString", "valueOf", "hasOwnProperty"}

\* PROJECT_REPO_MAP[repository]: own key, inherited property, or undefined
LookupProject(repository) ==
    IF repository \in DOMAIN PROJECT_REPO_MAP
    THEN JsNumber(PROJECT_REPO_MAP[repository])
    ELSE IF repository \in ObjectPrototypeKeys THEN JsFunction ELSE JsUndefined

possiblePaths == << "app/projectsData.json",
                    "src/data/projectsData.json",
                    "data/projectsData.json",
                    "projectsData.json",
                    "src/projectsData.json" >>

\* where projectsData.json lives in the destination repository
DestPath == "app/projectsData.json"

(* ------------------------ strings as characters ----------------------- *)

\* String.prototype.split('T')[0]: the characters before the first 'T'
RECURSIVE SplitT0(_)
SplitT0(s) ==
    IF s = <<>> \/ Head(s) = "T" THEN <<>>
    ELSE <<Head(s)>> \o SplitT0(Tail(s))

\* String.prototype.substring(0, n)
Substring0(s, n) == SubSeq(s, 1, IF Len(s) < n THEN Len(s) ELSE n)

Date1 == << "2","0","2","6","-","1","0","-","3","0" >>
Date2 == << "2","0","2","6","-","1","0","-","3","1" >>
Time1 == << "T","0","9",":","1","5",":","0","0","Z" >>
Time2 == << "T","1","7",":","4","0",":","0","0","Z" >>

\* commits of the source repository, as the hosting API lists them
CommitA == [ sha |-> << "a","1","b","2","c","3","d","4","e","5" >>,
             commit |-> [ message |-> "Add upload form",
                          author |-> [ name |-> "Mouaz", date |-> Date1 \o Time1 ] ] ]
CommitB == [ sha |-> << "a","1","b","2","c","3","d","9","f","0" >>,
             commit |-> [ message |-> "Fix label parser",
                          author |-> [ name |-> "Mouaz", date |-> Date1 \o Time2 ] ] ]
CommitC == [ sha |-> << "7","7","e","0","4","1","9","c","2","b" >>,
             commit |-> [ message |-> "Add export button",
                          author |-> [ name |-> "Mouaz", date |-> Date2 \o Time1 ] ] ]

\* the source repository's timeline, newest first as the hosting API lists it
Timeline == << CommitC, CommitB, CommitA >>

\* the commits of the timeline picked by an increasing sequence of indices
Pick(idx) == [ i \in 1..Len(idx) |-> Timeline[idx[i]] ]

\* commit lists the hosting API may return: sub-lists of the timeline, at
\* most MaxCommits long
CommitLists ==
    UNION { { Pick(idx) : idx \in { s \in [1..n -> 1..Len(Timeline)] :
                                      \A i \in 1..(n - 1) : s[i] < s[i + 1] } }
            : n \in 0..MaxCommits }

(* ------------------------- groupCommitsByDate ------------------------- *)

\* index of the bucket of a date in the grouped object, 0 when grouped[date]
\* is undefined
BucketOf(grouped, date) ==
    IF \E i \in 1..Len(grouped) : grouped[i].date = date
    THEN CHOOSE i \in 1..Len(grouped) : grouped[i].date = date
    ELSE 0

CommitRecord(commit) ==
    [ message |-> commit.commit.message,
      sha |-> Substring0(commit.sha, 7),
      author |-> commit.commit.author.name ]

\* faulty variant of GroupOne: assigns the bucket instead of pushing onto it
GroupOneAssigns(grouped, commit) ==
    LET date == SplitT0(commit.commit.author.date)
        k == BucketOf(grouped, date)
    IN  IF k = 0
        THEN Append(grouped, [ date |-> date, dateCommits |-> << CommitRecord(commit) >> ])
        ELSE [ grouped EXCEPT ![k].dateCommits = << CommitRecord(commit) >> ]

\* one iteration of commits.forEach
GroupOne(grouped, commit) ==
    LET date == SplitT0(commit.commit.author.date)
        k == BucketOf(grouped, date)
    IN  IF k = 0
        THEN Append(grouped, [ date |-> date, dateCommits |-> << CommitRecord(commit) >> ])
        ELSE [ grouped EXCEPT ![k].dateCommits = Append(@, CommitRecord(commit)) ]

\* the grouped object as the sequence Object.entries yields (insertion order)
RECURSIVE GroupFrom(_, _)
GroupFrom(grouped, commits) ==
    IF commits = <<>> THEN grouped
    ELSE GroupFrom(GroupOne(grouped, Head(commits)), Tail(commits))

groupCommitsByDate(commits) == GroupFrom(<<>>, commits)

(* ------------------- model response text and JSON -------------------- *)

\* a history entry; title, description, accomplishments and screenshots are
\* carried along unchanged by the code and left out
NoEntry == [ id |-> 0, date |-> <<>> ]

\* the response text is a sequence of tokens: punctuation, fence markers,
\* prose, and the members of one JSON object
Tok(t) == [ t |-> t, e |-> NoEntry ]
\* the fence markers: three backticks followed by json, and three backticks
FenceOpen == "<fence>json"
FenceClose == "<fence>"
Members(e) == [ t |-> "members", e |-> e ]

StringifyEntry(e) == << Tok("{"), Members(e), Tok("}") >>

RECURSIVE JoinEntries(_)
JoinEntries(a) ==
    IF a = <<>> THEN <<>>
    ELSE IF Len(a) = 1 THEN StringifyEntry(a[1])
    ELSE StringifyEntry(a[1]) \o << Tok(",") >> \o JoinEntries(Tail(a))

\* JSON text of an array of entries
StringifyArray(a) == << Tok("[") >> \o JoinEntries(a) \o << Tok("]") >>

\* the same text inside a ```json fenced block
Fenced(text) == << Tok(FenceOpen) >> \o text \o << Tok(FenceClose) >>

JsArray(a) == [ kind |-> "array", items |-> a, msg |-> "" ]
JsObject(e) == [ kind |-> "object", items |-> << e >>, msg |-> "" ]
JsError(m) == [ kind |-> "error", items |-> <<>>, msg |-> m ]

IsObjectAt(text, i) ==
    /\ i + 2 <= Len(text)
    /\ text[i].t = "{" /\ text[i + 1].t = "members" /\ text[i + 2].t = "}"

\* JSON.parse on the token text: an array of objects, one object, or a
\* SyntaxError
JSONParse(text) ==
    LET n == (Len(text) - 1) \div 4
    IN  IF Len(text) = 3 /\ IsObjectAt(text, 1) THEN JsObject(text[2].e)
        ELSE IF /\ Len(text) >= 2
                /\ text[1].t = "[" /\ text[Len(text)].t = "]"
                /\ \/ Len(text) = 2
                   \/ /\ Len(text) = 4 * n + 1
                      /\ \A k \in 0..(n - 1) :
                            /\ IsObjectAt(text, 2 + 4 * k)
                            /\ k < n - 1 => text[5 + 4 * k].t = ","
        THEN JsArray([ k \in 1..(IF Len(text) = 2 THEN 0 ELSE n) |-> text[4 * k - 1].e ])
        ELSE JsError("Unexpected token in JSON")

NoMatch == [ matched |-> FALSE, group |-> <<>> ]

\* generatedText.match(/```json\s*([\s\S]*?)\s*```/): group 1
MatchFence(text) ==
    LET Closes(i) == { j \in (i + 1)..Len(text) : text[j].t \in { FenceClose, FenceOpen } }
        Opens == { i \in 1..Len(text) : text[i].t = FenceOpen /\ Closes(i) # {} }
    IN  IF Opens = {} THEN NoMatch
        ELSE LET i == CHOOSE x \in Opens : \A y \in Opens : x <= y
                 j == CHOOSE x \in Closes(i) : \A y \in Closes(i) : x <= y
             IN  [ matched |-> TRUE, group |-> SubSeq(text, i + 1, j - 1) ]

\* generatedText.match(/\{[\s\S]*\}/): from the first '{' to the last '}'
MatchBraces(text) ==
    LET Closes == { j \in 1..Len(text) : text[j].t = "}" }
        Opens == { i \in 1..Len(text) :
                     text[i].t = "{" /\ \E j \in Closes : i < j }
    IN  IF Opens = {} THEN NoMatch
        ELSE LET i == CHOOSE x \in Opens : \A y \in Opens : x <= y
                 j == CHOOSE x \in Closes : \A y \in Closes : y <= x
             IN  [ matched |-> TRUE, group |-> SubSeq(text, i, j) ]

\* the tail of generateHistoryEntry: what it returns (or throws) for a
\* response text
ExtractJSON(generatedText) ==
    LET fence == MatchFence(generatedText)
        braces == MatchBraces(generatedText)
    IN  IF fence.matched THEN JSONParse(fence.group)
        ELSE IF ~braces.matched
             THEN JsError("Failed to extract JSON from Gemini response")
             ELSE JSONParse(braces.group)

\* existingHistory[existingHistory.length - 1]?.id || 0
LastId(existingHistory) ==
    IF existingHistory = <<>> THEN 0 ELSE existingHistory[Len(existingHistory)].id

\* the entries the prompt asks for: one per date group, all with last id + 1
RequestedEntries(existingHistory, newHistoryEntries) ==
    [ i \in 1..Len(newHistoryEntries) |->
        [ id |-> LastId(existingHistory) + 1, date |-> newHistoryEntries[i].date ] ]

\* the texts the generative model may answer a prompt with
GeminiTexts(existingHistory, newHistoryEntries) ==
    LET asked == RequestedEntries(existingHistory, newHistoryEntries)
        extra == << [ id |-> LastId(existingHistory) + 1, date |-> Date1 ] >>
    IN  { Fenced(StringifyArray(asked)), StringifyArray(asked),
          Fenced(StringifyArray(extra)) }
        \cup { << Tok("I cannot help with that.") >> }

(* -------------------------- destination file ------------------------- *)

\* a ProjectRecord of projectsData.json; hasHistory is FALSE when the record
\* has no history member
ProjectRecord(id, hasHistory, history) ==
    [ id |-> id, hasHistory |-> hasHistory, history |-> history ]

\* projectsData.find(p => p.id === projectId): index of the match, 0 if none
FindProject(projectsData, projectId) ==
    LET hits == { k \in 1..Len(projectsData) :
                    projectId.type = "number" /\ projectsData[k].id = projectId.n }
    IN  IF hits = {} THEN 0 ELSE CHOOSE k \in hits : \A h \in hits : k <= h

NotFoundMsg == "Could not find project with id"

\* parseProjectData: the project's history (|| []), or the error it throws
parseProjectData(content, projectId) ==
    LET k == FindProject(content, projectId)
    IN  IF k = 0 THEN [ threw |-> TRUE, msg |-> NotFoundMsg, history |-> <<>> ]
        ELSE [ threw |-> FALSE, msg |-> "",
               history |-> IF content[k].hasHistory THEN content[k].history ELSE <<>> ]

\* the loop of processAndCommit that keeps the date groups with no entry yet
RECURSIVE FilterNew(_, _)
FilterNew(existingHistory, grouped) ==
    IF grouped = <<>> THEN <<>>
    ELSE IF \E i \in 1..Len(existingHistory) : existingHistory[i].date = Head(grouped).date
         THEN FilterNew(existingHistory, Tail(grouped))
         ELSE << Head(grouped) >> \o FilterNew(existingHistory, Tail(grouped))

NoFile == [ sha |-> 0, content |-> <<>> ]
NoResult == [ kind |-> "none", items |-> <<>>, msg |-> "" ]

\* faulty variant of PutBody: assigns the history instead of pushing onto it
PutBodyAssigns(fileData, projectId, newHistoryEntries) ==
    LET k == FindProject(fileData.content, projectId)
    IN  [ sha |-> fileData.sha,
          content |-> [ fileData.content EXCEPT ![k].history = newHistoryEntries ] ]

\* the body of the contents write updateProjectsDataFile builds from the file
\* it re-fetched: the file with the new entries pushed, and the file's sha
PutBody(fileData, projectId, newHistoryEntries) ==
    LET k == FindProject(fileData.content, projectId)
    IN  [ sha |-> fileData.sha,
          content |-> [ fileData.content EXCEPT ![k].history = @ \o newHistoryEntries ] ]

\* the hosting API's check of a contents write: the hash token must be the
\* file's current one
HostAccepts(file, put) == put.sha = file.sha

(* ------------------------------- state -------------------------------- *)

VARIABLES
    SERVER_SECRET,      \* process.env.SERVER_SECRET
    upstream,           \* the commits of the source repository in the window
    destFile,           \* projectsData.json in the destination repository
    pc,                 \* per request: the call it awaits, "idle" or "done"
    token,              \* per request: the X-Server-Token header
    body,               \* per request: req.body
    entered,            \* per request: processAndCommit was called
    projectId,          \* per request: PROJECT_REPO_MAP[repository]
    groupedCommits,     \* per request: result of groupCommitsByDate
    pathIdx,            \* per request: index in possiblePaths being probed
    projectsFileData,   \* per request: file data findProjectsDataFile returned
    existingHistory,    \* per request
    newHistoryEntries,  \* per request: date groups handed to the generator
    generatedText,      \* per request: the model's response text
    newHistoryResult,   \* per request: what generateHistoryEntry returned
    fileData,           \* per request: file data updateProjectsDataFile re-fetched
    putBody,            \* per request: body of the contents write
    calls,              \* per request: the outbound calls made, in order
    thrown,             \* per request: message of the error processAndCommit threw
    status,             \* per request: HTTP status of the response, 0 before
    details             \* per request: details member of the response

vars == << SERVER_SECRET, upstream, destFile, pc, token, body, entered, projectId,
           groupedCommits, pathIdx, projectsFileData, existingHistory,
           newHistoryEntries, generatedText, newHistoryResult, fileData, putBody,
           calls, thrown, status, details >>

Tokens == { Undefined, "s3cr3t", "guess" }
Secrets == { Undefined, "s3cr3t" }

Repositories == { "MouazMidani/testRepo", "octocat/Hello-World", "constructor" }
NoBody == [ present |-> FALSE, repository |-> Undefined ]
Bodies == { NoBody } \cup
          { [ present |-> TRUE, repository |-> x ] : x \in { Undefined } \cup Repositories }

\* the history project 3 starts with
InitialHistory == << [ id |-> 1, date |-> Date1 ] >>
\* the history of project 5, which no request of the model maps to
OtherHistory == << [ id |-> 1, date |-> Date2 ] >>

Init ==
    /\ SERVER_SECRET \in Secrets
    /\ upstream \in CommitLists
    /\ destFile = [ sha |-> 1,
                    content |-> << ProjectRecord(3, TRUE, InitialHistory),
                                   ProjectRecord(5, TRUE, OtherHistory) >> ]
    /\ pc = [ r \in Reqs |-> "idle" ]
    /\ token = [ r \in Reqs |-> Undefined ]
    /\ body = [ r \in Reqs |-> NoBody ]
    /\ entered = [ r \in Reqs |-> FALSE ]
    /\ projectId = [ r \in Reqs |-> JsUndefined ]
    /\ groupedCommits = [ r \in Reqs |-> <<>> ]
    /\ pathIdx = [ r \in Reqs |-> 0 ]
    /\ projectsFileData = [ r \in Reqs |-> NoFile ]
    /\ existingHistory = [ r \in Reqs |-> <<>> ]
    /\ newHistoryEntries = [ r \in Reqs |-> <<>> ]
    /\ generatedText = [ r \in Reqs |-> <<>> ]
    /\ newHistoryResult = [ r \in Reqs |-> NoResult ]
    /\ fileData = [ r \in Reqs |-> NoFile ]
    /\ putBody = [ r \in Reqs |-> NoFile ]
    /\ calls = [ r \in Reqs |-> <<>> ]
    /\ thrown = [ r \in Reqs |-> "" ]
    /\ status = [ r \in Reqs |-> 0 ]
    /\ details = [ r \in Reqs |-> "" ]

(* ------------------------------ handler ------------------------------- *)

\* faulty variant of Unauthorized: without the !token test
UnauthorizedNoFalsy(tok, secret) == tok # secret

\* the security check of the handler: TRUE when the request is rejected
Unauthorized(tok, secret) == tok = Undefined \/ tok # secret

\* faulty variant of BadRequest: without the !commitData.repository test
BadRequestBodyOnly(b) == ~b.present

\* the second check of the handler: TRUE when the body is rejected
BadRequest(b) == ~b.present \/ b.repository = Undefined

\* faulty variant of CatchInProcessAndCommit: logs and does not throw again
CatchSwallows(msg) == [ threw |-> FALSE, msg |-> "" ]

\* the catch block of processAndCommit: logs and throws the error again
CatchInProcessAndCommit(msg) == [ threw |-> TRUE, msg |-> msg ]

\* faulty variant of HandlerResponse: the 500 body without details
HandlerResponseNoDetails(outcome) ==
    IF outcome.threw THEN [ status |-> 500, details |-> "" ]
    ELSE [ status |-> 200, details |-> "" ]

\* the try/catch of the handler around await processAndCommit(commitData)
HandlerResponse(outcome) ==
    IF outcome.threw THEN [ status |-> 500, details |-> outcome.msg ]
    ELSE [ status |-> 200, details |-> "" ]

\* the response is sent and the request is over
Respond(r, response) ==
    /\ pc' = [ pc EXCEPT ![r] = "done" ]
    /\ status' = [ status EXCEPT ![r] = response.status ]
    /\ details' = [ details EXCEPT ![r] = response.details ]

\* processAndCommit returns normally
Returns(r) ==
    /\ Respond(r, HandlerResponse([ threw |-> FALSE, msg |-> "" ]))
    /\ thrown' = thrown

\* an error with message msg is thrown inside the try block of processAndCommit
Throws(r, msg) ==
    /\ Respond(r, HandlerResponse(CatchInProcessAndCommit(msg)))
    /\ thrown' = [ thrown EXCEPT ![r] = msg ]

\* an outbound call is issued and awaited
Awaits(r, call) ==
    /\ pc' = [ pc EXCEPT ![r] = call ]
    /\ calls' = [ calls EXCEPT ![r] = Append(@, call) ]
    /\ UNCHANGED << thrown, status, details >>

(* ------------------------------ actions ------------------------------- *)

\* POST /api/process-commit arrives: the handler up to its first await, that
\* is the two checks and processAndCommit up to the commit fetch
ReceiveWith(r, tok, b) ==
    /\ pc[r] = "idle"
    /\ token' = [ token EXCEPT ![r] = tok ]
    /\ body' = [ body EXCEPT ![r] = b ]
    /\ IF Unauthorized(tok, SERVER_SECRET)
       THEN /\ Respond(r, [ status |-> 401, details |-> "" ])
            /\ UNCHANGED << entered, projectId, calls, thrown >>
       ELSE IF BadRequest(b)
       THEN /\ Respond(r, [ status |-> 400, details |-> "" ])
            /\ UNCHANGED << entered, projectId, calls, thrown >>
       ELSE /\ entered' = [ entered EXCEPT ![r] = TRUE ]
            /\ projectId' = [ projectId EXCEPT ![r] = LookupProject(b.repository) ]
            /\ IF ~Truthy(LookupProject(b.repository))
               THEN Returns(r) /\ UNCHANGED calls
               ELSE Awaits(r, "fetchCommits")
    /\ UNCHANGED << SERVER_SECRET, upstream, destFile, groupedCommits, pathIdx,
                    projectsFileData, existingHistory, newHistoryEntries,
                    generatedText, newHistoryResult, fileData, putBody >>

Receive(r) == \E tok \in Tokens, b \in Bodies : ReceiveWith(r, tok, b)

\* fetchCommitHistory settles; on success the commits are grouped and the
\* first candidate path is probed
FetchCommitsSettles(r, ok) ==
    /\ pc[r] = "fetchCommits"
    /\ IF ~ok
       THEN Throws(r, "Request failed with status code 404")
            /\ UNCHANGED << groupedCommits, pathIdx, calls >>
       ELSE IF Len(upstream) = 0
       THEN Returns(r) /\ UNCHANGED << groupedCommits, pathIdx, calls >>
       ELSE /\ groupedCommits' = [ groupedCommits EXCEPT ![r] = groupCommitsByDate(upstream) ]
            /\ pathIdx' = [ pathIdx EXCEPT ![r] = 1 ]
            /\ Awaits(r, "contents")
    /\ UNCHANGED << SERVER_SECRET, upstream, destFile, token, body, entered, projectId,
                    projectsFileData, existingHistory, newHistoryEntries,
                    generatedText, newHistoryResult, fileData, putBody >>

FetchCommitsReturn(r) == \E ok \in BOOLEAN : FetchCommitsSettles(r, ok)

\* one probe of findProjectsDataFile settles (only the path where the file
\* lives can succeed); on success the file is parsed, the date groups are
\* filtered and the model is called
LocateSettles(r, ok) ==
    /\ pc[r] = "contents"
    /\ ok => possiblePaths[pathIdx[r]] = DestPath
    /\ IF ~ok
       THEN /\ IF pathIdx[r] < Len(possiblePaths)
               THEN /\ pathIdx' = [ pathIdx EXCEPT ![r] = @ + 1 ]
                    /\ Awaits(r, "contents")
               ELSE /\ Throws(r, "Could not find ProjectsData.tsx in any common location")
                    /\ UNCHANGED << pathIdx, calls >>
            /\ UNCHANGED << projectsFileData, existingHistory, newHistoryEntries >>
       ELSE LET parsed == parseProjectData(destFile.content, projectId[r])
            IN  /\ projectsFileData' = [ projectsFileData EXCEPT ![r] = destFile ]
                /\ UNCHANGED pathIdx
                /\ IF parsed.threw
                   THEN /\ Throws(r, parsed.msg)
                        /\ UNCHANGED << existingHistory, newHistoryEntries, calls >>
                   ELSE /\ existingHistory' = [ existingHistory EXCEPT ![r] = parsed.history ]
                        /\ newHistoryEntries' =
                             [ newHistoryEntries EXCEPT
                                 ![r] = FilterNew(parsed.history, groupedCommits[r]) ]
                        /\ Awaits(r, "generate")
    /\ UNCHANGED << SERVER_SECRET, upstream, destFile, token, body, entered, projectId,
                    groupedCommits, generatedText, newHistoryResult, fileData, putBody >>

LocateReturn(r) == \E ok \in BOOLEAN : LocateSettles(r, ok)

\* the model call of generateHistoryEntry fails
GenerateFails(r) ==
    /\ pc[r] = "generate"
    /\ Throws(r, "Request failed with status code 429")
    /\ UNCHANGED << SERVER_SECRET, upstream, destFile, token, body, entered, projectId,
                    groupedCommits, pathIdx, projectsFileData, existingHistory,
                    newHistoryEntries, generatedText, newHistoryResult, fileData,
                    putBody, calls >>

\* the model answers with text; generateHistoryEntry extracts the JSON, and
\* unless the result has length 0 updateProjectsDataFile re-fetches the file
GenerateAnswers(r, text) ==
    /\ pc[r] = "generate"
    /\ generatedText' = [ generatedText EXCEPT ![r] = text ]
    /\ LET result == ExtractJSON(text)
       IN  IF result.kind = "error"
           THEN Throws(r, result.msg) /\ UNCHANGED << newHistoryResult, calls >>
           ELSE /\ newHistoryResult' = [ newHistoryResult EXCEPT ![r] = result ]
                /\ IF result.kind = "array" /\ Len(result.items) = 0
                   THEN Returns(r) /\ UNCHANGED calls
                   ELSE Awaits(r, "refetch")
    /\ UNCHANGED << SERVER_SECRET, upstream, destFile, token, body, entered, projectId,
                    groupedCommits, pathIdx, projectsFileData, existingHistory,
                    newHistoryEntries, fileData, putBody >>

GenerateReturn(r) ==
    \E text \in GeminiTexts(existingHistory[r], newHistoryEntries[r]) :
        GenerateAnswers(r, text)

\* the re-fetch of updateProjectsDataFile settles; on success the entries are
\* pushed onto the project's history and the contents write is issued
RefetchSettles(r, ok) ==
    /\ pc[r] = "refetch"
    /\ IF ~ok
       THEN Throws(r, "Request failed with status code 502")
            /\ UNCHANGED << fileData, putBody, calls >>
       ELSE LET k == FindProject(destFile.content, projectId[r])
            IN  /\ fileData' = [ fileData EXCEPT ![r] = destFile ]
                /\ IF k = 0
                   THEN Throws(r, NotFoundMsg) /\ UNCHANGED << putBody, calls >>
                   ELSE IF ~destFile.content[k].hasHistory
                   THEN Throws(r, "Cannot read properties of undefined (reading 'push')")
                        /\ UNCHANGED << putBody, calls >>
                   ELSE IF newHistoryResult[r].kind # "array"
                   THEN Throws(r, "newHistoryEntries is not iterable")
                        /\ UNCHANGED << putBody, calls >>
                   ELSE /\ putBody' = [ putBody EXCEPT
                                          ![r] = PutBody(destFile, projectId[r],
                                                         newHistoryResult[r].items) ]
                        /\ Awaits(r, "put")
    /\ UNCHANGED << SERVER_SECRET, upstream, destFile, token, body, entered, projectId,
                    groupedCommits, pathIdx, projectsFileData, existingHistory,
                    newHistoryEntries, generatedText, newHistoryResult >>

RefetchReturn(r) == \E ok \in BOOLEAN : RefetchSettles(r, ok)

\* the contents write settles: the hosting API stores the content when the
\* hash token is current, and rejects the write otherwise
PutReturn(r) ==
    /\ pc[r] = "put"
    /\ IF HostAccepts(destFile, putBody[r])
       THEN /\ destFile' = [ sha |-> destFile.sha + 1, content |-> putBody[r].content ]
            /\ Returns(r)
       ELSE /\ Throws(r, "Request failed with status code 409")
            /\ UNCHANGED destFile
    /\ UNCHANGED << SERVER_SECRET, upstream, token, body, entered, projectId,
                    groupedCommits, pathIdx, projectsFileData, existingHistory,
                    newHistoryEntries, generatedText, newHistoryResult, fileData,
                    putBody, calls >>

Next ==
    \E r \in Reqs :
        \/ Receive(r)
        \/ FetchCommitsReturn(r)
        \/ LocateReturn(r)
        \/ GenerateFails(r)
        \/ GenerateReturn(r)
        \/ RefetchReturn(r)
        \/ PutReturn(r)

Spec == Init /\ [][Next]_vars

(* ------------------------------- claims ------------------------------- *)

Authorized(r) == token[r] # Undefined /\ token[r] = SERVER_SECRET
Made(r, call) == \E i \in 1..Len(calls[r]) : calls[r][i] = call
StaleMsg == "Request failed with status code 409"

\* every answer of the model so far held exactly the entries it was asked for
AnswersAsAsked ==
    \A r \in Reqs :
        newHistoryResult[r] # NoResult =>
            newHistoryResult[r] =
                JsArray(RequestedEntries(existingHistory[r], newHistoryEntries[r]))

\* C1: in every state of the destination file no project's history holds two
\* entries with the same date, whatever the interleaving of the requests (here
\* already when every answer of the model holds just the entries asked for).
C1_OneEntryPerDate ==
    AnswersAsAsked =>
        \A k \in 1..Len(destFile.content) :
            LET h == destFile.content[k].history
            IN  \A i, j \in 1..Len(h) : i # j => h[i].date # h[j].date

\* C2: a run of processAndCommit that finds an entry for every commit date
\* already in the project's history issues no contents write.
C2_SecondRunWritesNothing ==
    \A r \in Reqs :
        ( /\ projectsFileData[r] # NoFile
          /\ groupedCommits[r] # <<>>
          /\ \A g \in 1..Len(groupedCommits[r]) :
                \E i \in 1..Len(existingHistory[r]) :
                    existingHistory[r][i].date = groupedCommits[r][g].date )
        => ~Made(r, "put")

\* C3: a request whose token is missing or differs from the secret is answered
\* 401 and makes no outbound call, whatever its body.
C3_UnauthorizedIs401 ==
    \A r \in Reqs :
        ( pc[r] # "idle" /\ ( token[r] = Undefined \/ token[r] # SERVER_SECRET ) )
        => /\ pc[r] = "done" /\ status[r] = 401
           /\ calls[r] = <<>> /\ ~entered[r]

C3_Witness ==
    \E r \in Reqs :
        /\ pc[r] = "done" /\ status[r] = 401
        /\ token[r] = "guess" /\ SERVER_SECRET = "s3cr3t"
        /\ body[r].repository = "MouazMidani/testRepo"

\* C4: when the hosting API rejects the contents write because the hash token
\* is stale, the request ends with 500 and the rejection's message in details,
\* makes no further call, and the destination file is unchanged.
C4_StaleWriteIs500 ==
    [][ \A r \in Reqs :
          ( pc[r] = "put" /\ pc'[r] # "put" /\ putBody[r].sha # destFile.sha )
          => /\ pc'[r] = "done"
             /\ status'[r] = 500 /\ details'[r] = StaleMsg
             /\ calls'[r] = calls[r]
             /\ destFile' = destFile ]_vars

C4_Witness ==
    \E r \in Reqs :
        /\ pc[r] = "done" /\ Made(r, "put")
        /\ status[r] = 500 /\ details[r] = StaleMsg

\* C5: an authorized request whose repository is not a key of PROJECT_REPO_MAP
\* makes no outbound call, throws nothing and is answered 200.
C5_UnmappedIsSkipped ==
    \A r \in Reqs :
        ( /\ pc[r] # "idle" /\ Authorized(r)
          /\ body[r].present /\ body[r].repository # Undefined
          /\ body[r].repository \notin DOMAIN PROJECT_REPO_MAP )
        => /\ pc[r] = "done" /\ status[r] = 200
           /\ calls[r] = <<>> /\ thrown[r] = ""

\* C6: an authorized request with no body or no repository field is answered
\* 400; processAndCommit is not entered and no outbound call is made.
C6_MissingRepositoryIs400 ==
    \A r \in Reqs :
        ( /\ pc[r] # "idle" /\ Authorized(r)
          /\ ( ~body[r].present \/ body[r].repository = Undefined ) )
        => /\ pc[r] = "done" /\ status[r] = 400
           /\ ~entered[r] /\ calls[r] = <<>>

C6_Witness ==
    \E r \in Reqs :
        /\ pc[r] = "done" /\ Authorized(r) /\ status[r] = 400
        /\ body[r].present /\ body[r].repository = Undefined

\* C7: the response of an authorized request with a repository is sent only
\* when processAndCommit is over (no call is pending and none is made
\* afterwards), and an error thrown at any step of the pipeline gives 500 with
\* the error's message in details, never 200.
C7_ResponseAfterPipeline ==
    /\ [] ( \A r \in Reqs :
              /\ status[r] # 0 => pc[r] = "done"
              /\ ( entered[r] /\ pc[r] = "done" ) =>
                    IF thrown[r] # ""
                    THEN status[r] = 500 /\ details[r] = thrown[r]
                    ELSE status[r] = 200 )
    /\ [][ \A r \in Reqs :
             status[r] # 0 =>
                /\ calls'[r] = calls[r]
                /\ status'[r] = status[r] /\ details'[r] = details[r] ]_vars

C7_Witness ==
    \E r \in Reqs :
        /\ pc[r] = "done" /\ entered[r] /\ Made(r, "generate")
        /\ thrown[r] = "Failed to extract JSON from Gemini response"
        /\ status[r] = 500 /\ details[r] = thrown[r]

\* number of grouped records equal to the record of a commit, over all buckets
Occurrences(grouped, commit) ==
    Cardinality({ kj \in { << k, j >> : k \in 1..Len(grouped), j \in 1..MaxCommits } :
                    /\ kj[2] <= Len(grouped[kj[1]].dateCommits)
                    /\ grouped[kj[1]].dateCommits[kj[2]] = CommitRecord(commit) })

RECURSIVE TotalGrouped(_)
TotalGrouped(grouped) ==
    IF grouped = <<>> THEN 0
    ELSE Len(Head(grouped).dateCommits) + TotalGrouped(Tail(grouped))

\* C8: groupCommitsByDate files every commit once, under the first 10
\* characters of its author timestamp, and the grouped records are as many as
\* the commits.
C8_GroupedByDate ==
    \A r \in Reqs :
        Made(r, "contents") =>
            LET grouped == groupedCommits[r]
            IN  /\ TotalGrouped(grouped) = Len(upstream)
                /\ \A k, l \in 1..Len(grouped) :
                      k # l => grouped[k].date # grouped[l].date
                /\ \A i \in 1..Len(upstream) :
                      /\ Occurrences(grouped, upstream[i]) = 1
                      /\ \E k \in 1..Len(grouped) :
                            /\ grouped[k].date =
                                 SubSeq(upstream[i].commit.author.date, 1, 10)
                            /\ \E j \in 1..Len(grouped[k].dateCommits) :
                                  grouped[k].dateCommits[j] = CommitRecord(upstream[i])

C8_Witness ==
    \E r \in Reqs :
        /\ Made(r, "contents")
        /\ Len(upstream) = 2 /\ Len(groupedCommits[r]) = 1
        /\ Len(groupedCommits[r][1].dateCommits) = 2

\* C9: when the model answers with the raw JSON text of an array of entries,
\* generateHistoryEntry returns that array, the same value it returns for the
\* text inside a fenced block.
C9_RawParsesAsFenced ==
    \A r \in Reqs :
        LET asked == RequestedEntries(existingHistory[r], newHistoryEntries[r])
        IN  generatedText[r] = StringifyArray(asked)
            => /\ newHistoryResult[r] = JsArray(asked)
               /\ newHistoryResult[r] = ExtractJSON(Fenced(generatedText[r]))

IsPrefix(s, t) == Len(s) <= Len(t) /\ SubSeq(t, 1, Len(s)) = s

\* C10: a write the hosting API accepts carries the hash token and the content
\* of the re-fetch of the same updateProjectsDataFile call, so the file after
\* it is the file before it with the request's entries appended to the matched
\* project; no entry in the file is ever removed or altered; and a request
\* whose token has gone stale fails, each request making at most one contents
\* write.
C10_NoLostUpdate ==
    /\ [][ destFile' # destFile =>
             \E r \in Reqs :
                /\ pc[r] = "put" /\ pc'[r] = "done"
                /\ fileData[r] = destFile /\ putBody[r].sha = fileData[r].sha
                /\ LET k == FindProject(destFile.content, projectId[r])
                   IN  destFile'.content =
                         [ destFile.content EXCEPT
                             ![k].history = @ \o newHistoryResult[r].items ] ]_vars
    /\ [][ /\ Len(destFile'.content) = Len(destFile.content)
           /\ \A k \in 1..Len(destFile.content) :
                /\ destFile'.content[k].id = destFile.content[k].id
                /\ IsPrefix(destFile.content[k].history,
                            destFile'.content[k].history) ]_vars
    /\ [][ \A r \in Reqs :
             ( pc[r] = "put" /\ pc'[r] # "put" /\ fileData[r].sha # destFile.sha )
             => pc'[r] = "done" /\ thrown'[r] = StaleMsg /\ destFile' = destFile ]_vars
    /\ [] ( \A r \in Reqs :
              Cardinality({ i \in 1..Len(calls[r]) : calls[r][i] = "put" }) <= 1 )

C10_Witness ==
    \E r1, r2 \in Reqs :
        /\ r1 # r2
        /\ pc[r1] = "done" /\ status[r1] = 200 /\ Made(r1, "put")
        /\ pc[r2] = "done" /\ status[r2] = 200 /\ Made(r2, "put")
        /\ fileData[r2].sha = putBody[r1].sha + 1

====
